---- MODULE Spec2Model ----
(***************************************************************************)
(* On-device sampling of neuronx_distributed_inference:                    *)
(*   modules/generation/sampling.py                                        *)
(*                                                                         *)
(* Tensors are sequences (1-based); a token id or a sorted position p of   *)
(* the code (0-based) is stored at sequence index p + 1.                   *)
(*                                                                         *)
(* Floating point is modelled as fixed point.  Probabilities, top_p and    *)
(* the uniform draw are integers in units of 1/Scale (Scale is 1.0).       *)
(* Logit values and temperatures are integers.  exp() is the table ExpTab, *)
(* which is 0 once its argument is below the representable range, as the   *)
(* float exp() of the code underflows to 0 for large negative arguments.   *)
(***************************************************************************)
EXTENDS Integers, Sequences, FiniteSets, TLC

(* ---------------- bounds of the model ---------------- *)
VocabSize == 2
MaxLen == 2
MaxBatchSize == 2

(* ---------------- numeric model ---------------- *)
Scale == 1000
One == Scale
Half == Scale \div 2
ExpTab == <<1000, 368, 135, 50, 18, 7, 2, 1>>
IGNORED_LOGITS_VALUE == -3000

(* a function over 1..n as an explicit tuple (the same value, evaluated once) *)
Vec(f) == SubSeq(f, 1, Len(f))

RECURSIVE SumTo(_, _)
SumTo(row, n) == IF n = 0 THEN 0 ELSE SumTo(row, n - 1) + row[n]

Sum(row) == SumTo(row, Len(row))

RoundDiv(a, b) == (2 * a + b) \div (2 * b)

TrueDivide(v, t) == IF v >= 0 THEN RoundDiv(v, t) ELSE -RoundDiv(-v, t)

MaxOf(S) == CHOOSE x \in S : \A y \in S : y <= x

MinOf(S) == CHOOSE x \in S : \A y \in S : x <= y

Exp(d) == IF d + 1 <= Len(ExpTab) THEN ExpTab[d + 1] ELSE 0

(* ---------------- prepare_sampling_params ---------------- *)
Scalar(v) == [kind |-> "scalar", val |-> v]

List(vs) == [kind |-> "list", val |-> vs]

Tensor(vs) == [kind |-> "tensor", val |-> vs]

prepare_tensor(val) ==
    IF val.kind # "tensor"
    THEN IF val.kind # "list" THEN <<val.val>> ELSE val.val
    ELSE val.val

ShapesMatchFirstTwo(top_k, top_p, temperature) == Len(top_k) = Len(top_p)

ShapesMatchAssert(top_k, top_p, temperature) ==
    Len(top_k) = Len(top_p) /\ Len(top_p) = Len(temperature)

broadcast_first_only(t, batch_size) == t

broadcast_to(t, batch_size) == Vec([i \in 1..batch_size |-> t[1]])

RuntimeError == [kind |-> "RuntimeError"]

AssertionError == [kind |-> "AssertionError"]

(* torch.stack(dim=1): the tensors must have the same size *)
stack(top_k, top_p, temperature) ==
    IF Len(top_k) # Len(top_p) \/ Len(top_k) # Len(temperature)
    THEN RuntimeError
    ELSE [kind |-> "tensor",
          val |-> Vec([i \in 1..Len(top_k) |-> <<top_k[i], top_p[i], temperature[i]>>])]

prepare_sampling_params(batch_size, top_k_in, top_p_in, temperature_in) ==
    LET top_k == prepare_tensor(top_k_in)
        top_p == prepare_tensor(top_p_in)
        temperature == prepare_tensor(temperature_in)
    IN  IF ~ShapesMatchAssert(top_k, top_p, temperature)
        THEN AssertionError
        ELSE IF Len(top_k) = 1
             THEN stack(broadcast_to(top_k, batch_size),
                        broadcast_to(top_p, batch_size),
                        broadcast_to(temperature, batch_size))
             ELSE stack(top_k, top_p, temperature)

(* ---------------- Sampler ---------------- *)
GlobalTopKs == {0, VocabSize - 1}

SamplerConfigs ==
    [do_sample : BOOLEAN, dynamic : BOOLEAN, deterministic : BOOLEAN,
     global_topk : GlobalTopKs, is_medusa : BOOLEAN, on_cpu : BOOLEAN]

NoVal == <<>>

(* torch.argmax / nxd_argmax: index of the first maximal value *)
argmax(row) ==
    (CHOOSE j \in 1..Len(row) :
        /\ \A i \in 1..Len(row) : row[i] <= row[j]
        /\ \A i \in 1..(j - 1) : row[i] < row[j]) - 1

(* torch.sort(descending=True): source index of each sorted position *)
Rank(row, j) ==
    Cardinality({i \in 1..Len(row) : row[i] > row[j] \/ (row[i] = row[j] /\ i < j)})

sort(row) ==
    Vec([p \in 1..Len(row) |-> CHOOSE j \in 1..Len(row) : Rank(row, j) = p - 1])

(* torch.topk / nxd_topk: the first k sorted positions *)
topk(row, k) == SubSeq(sort(row), 1, k)

cumsum(row) == Vec([p \in 1..Len(row) |-> SumTo(row, p)])

_soft_max(row) ==
    LET m == MaxOf({row[p] : p \in 1..Len(row)})
        e == Vec([p \in 1..Len(row) |-> Exp(m - row[p])])
        total == Sum(e)
    IN  Vec([p \in 1..Len(row) |-> RoundDiv(e[p] * Scale, total)])

_top_k_masked(self, logits, top_k) ==
    LET order == Vec([i \in 1..Len(logits) |->
                    IF self.global_topk > 0
                    THEN topk(logits[i], self.global_topk)
                    ELSE sort(logits[i])])
        vocab_size == Len(order[1])
        mask == Vec([i \in 1..Len(logits) |-> Vec([p \in 1..vocab_size |-> (p - 1) >= top_k[i]])])
    IN  [sorted_logits |->
            Vec([i \in 1..Len(logits) |->
                Vec([p \in 1..vocab_size |->
                    IF mask[i][p] THEN IGNORED_LOGITS_VALUE ELSE logits[i][order[i][p]]])]),
         indeces |-> Vec([i \in 1..Len(logits) |-> Vec([p \in 1..vocab_size |-> order[i][p] - 1])]),
         mask |-> mask]

(* rand_like: one uniform value of [0, 1) per row, any of them *)
Draws == {0, Scale - 1}

rand_like(batch) == [1..batch -> Draws]

_rand_selector_always_random(self, batch) ==
    [rng |-> TRUE, choices |-> rand_like(batch)]

_rand_selector(self, batch) ==
    IF self.deterministic
    THEN [rng |-> FALSE, choices |-> {Vec([i \in 1..batch |-> Half])}]
    ELSE [rng |-> TRUE, choices |-> rand_like(batch)]

_multinomial(probs, rand_selector) ==
    LET probs_cumsum == Vec([i \in 1..Len(probs) |-> cumsum(probs[i])])
    IN  Vec([i \in 1..Len(probs) |->
            Cardinality({p \in 1..Len(probs[i]) : rand_selector[i] > probs_cumsum[i][p]})])

Rows(t) == 1..Len(t)

GreedyConditionIgnoresDoSample(self, top_k) ==
    ~self.dynamic /\ \A i \in Rows(top_k) : top_k[i] <= 1

GreedyConditionBelowOne(self, top_k) ==
    (~self.do_sample) \/ (~self.dynamic /\ \A i \in Rows(top_k) : top_k[i] < 1)

GreedyCondition(self, top_k) ==
    (~self.do_sample) \/ (~self.dynamic /\ \A i \in Rows(top_k) : top_k[i] <= 1)

Result(kind, tokens, values, indices, probs, trace) ==
    [kind |-> kind, tokens |-> tokens, values |-> values,
     indices |-> indices, probs |-> probs, trace |-> trace]

Trace(path, rng, top_k_mask, top_p_applied, raw_mask, top_p_mask, cum, rand, counts) ==
    [path |-> path, rng |-> rng, top_k_mask |-> top_k_mask,
     top_p_applied |-> top_p_applied, raw_mask |-> raw_mask, top_p_mask |-> top_p_mask,
     probs_cumsum |-> cum, rand_selector |-> rand, counts |-> counts]

GreedyTrace == Trace("greedy", FALSE, NoVal, FALSE, NoVal, NoVal, NoVal, NoVal, NoVal)

index_fill_skipped(mask_row) == mask_row

(* Tensor.index_fill_(dim, [0], False): position 0 of the row is cleared *)
index_fill_(mask_row) == Vec([p \in 1..Len(mask_row) |-> IF p = 1 THEN FALSE ELSE mask_row[p]])

MedusaBranchNever(self) == FALSE

MedusaBranch(self) == self.is_medusa

gather(indices, counts) ==
    IF \E i \in Rows(indices) : counts[i] + 1 > Len(indices[i])
    THEN NoVal
    ELSE Vec([i \in Rows(indices) |-> indices[i][counts[i] + 1]])

(* Sampler.forward: the set of results the call can return *)
forward(self, token_logits, sampling_params, return_values) ==
    LET batch_size == Len(token_logits)
        top_k == Vec([i \in 1..batch_size |-> sampling_params[i][1]])
        top_p == Vec([i \in 1..batch_size |-> sampling_params[i][2]])
        temperature == Vec([i \in 1..batch_size |-> sampling_params[i][3]])
    IN  IF GreedyCondition(self, top_k)
        THEN LET tokens == Vec([i \in 1..batch_size |-> argmax(token_logits[i])])
                 values == Vec([i \in 1..batch_size |-> One])
             IN  IF self.on_cpu
                 THEN {Result("tokens", tokens, NoVal, NoVal, NoVal, GreedyTrace)}
                 ELSE IF return_values
                      THEN {Result("tokens_values", tokens, values, NoVal, NoVal, GreedyTrace)}
                      ELSE {Result("tokens", tokens, NoVal, NoVal, NoVal, GreedyTrace)}
        ELSE
        LET tk == _top_k_masked(self, token_logits, top_k)
            top_k_logits_indices == tk.indeces
            K == Len(tk.indeces[1])
            scaled ==
                IF self.dynamic \/ \E i \in 1..batch_size : temperature[i] # 1
                THEN Vec([i \in 1..batch_size |->
                        Vec([p \in 1..K |-> TrueDivide(tk.sorted_logits[i][p], temperature[i])])])
                ELSE tk.sorted_logits
            top_p_applied == self.dynamic \/ \E i \in 1..batch_size : top_p[i] < One
            cum0 == Vec([i \in 1..batch_size |-> cumsum(_soft_max(scaled[i]))])
            floor_p == MinOf({cum0[i][p] : i \in 1..batch_size, p \in 1..K})
            clamped == Vec([i \in 1..batch_size |->
                          IF floor_p > top_p[i] THEN floor_p ELSE top_p[i]])
            raw_mask == Vec([i \in 1..batch_size |-> Vec([p \in 1..K |-> cum0[i][p] > clamped[i]])])
            top_p_mask == Vec([i \in 1..batch_size |-> index_fill_(raw_mask[i])])
            top_k_logits_values ==
                IF top_p_applied
                THEN Vec([i \in 1..batch_size |->
                        Vec([p \in 1..K |->
                            IF top_p_mask[i][p] THEN IGNORED_LOGITS_VALUE ELSE scaled[i][p]])])
                ELSE scaled
            probs_soft_max == Vec([i \in 1..batch_size |-> _soft_max(top_k_logits_values[i])])
            probs_cumsum == Vec([i \in 1..batch_size |-> cumsum(probs_soft_max[i])])
            sel == _rand_selector(self, batch_size)
            tr(rng, rand, counts) ==
                Trace("general", rng, tk.mask, top_p_applied,
                      IF top_p_applied THEN raw_mask ELSE NoVal,
                      IF top_p_applied THEN top_p_mask ELSE NoVal,
                      probs_cumsum, rand, counts)
        IN  IF MedusaBranch(self)
            THEN {Result("indices", NoVal, NoVal, top_k_logits_indices, NoVal,
                         Trace("medusa", FALSE, tk.mask, FALSE, NoVal, NoVal, NoVal, NoVal, NoVal))}
            ELSE IF return_values
                 THEN {Result("indices_probs", NoVal, NoVal, top_k_logits_indices,
                              probs_soft_max, tr(FALSE, NoVal, NoVal))}
                 ELSE {LET counts == _multinomial(probs_soft_max, rand_selector)
                           tokens == gather(top_k_logits_indices, counts)
                       IN  Result(IF tokens = NoVal THEN "IndexError" ELSE "tokens",
                                  tokens, NoVal, NoVal, NoVal,
                                  tr(sel.rng, rand_selector, counts))
                       : rand_selector \in sel.choices}

(* ---------------- state ---------------- *)
(* sampler:      the Sampler's configuration (self)
   construction: the configuration __init__ set
   prep:         the last prepare_sampling_params call, arguments and result
   fwd:          the last forward call, arguments, result and intermediate tensors
   pinned:       an earlier forward call the caller kept *)
VARIABLES sampler, construction, prep, fwd, pinned

vars == <<sampler, construction, prep, fwd, pinned>>

NoCall == [args |-> NoVal]

(* ---------------- inputs ---------------- *)
(* top_p is in units of 1/Scale; temperature 3000 is the magnitude of the masking
   sentinel; the pairs of TopPTemperature are the per-row settings of a forward call:
   neither filter, top-p only, temperature only. *)
BatchSizes == {1, 2}
TopKs == 0..VocabSize
TopPs == {Half, One}
Temperatures == {1, 3000}
TopPTemperature == {<<One, 1>>, <<Half, 1>>, <<One, 3000>>}
LogitValues == {0, 1}
LogitRows == [1..VocabSize -> LogitValues]
ParamRows == {<<k, pt[1], pt[2]>> : k \in TopKs, pt \in TopPTemperature}

SeqsUpTo(S, n) == UNION {[1..m -> S] : m \in 1..n}

ParamInputs(S) ==
    {Scalar(v) : v \in S} \cup {List(q) : q \in SeqsUpTo(S, MaxLen)}
        \cup {Tensor(q) : q \in SeqsUpTo(S, MaxLen)}

(* ---------------- actions ---------------- *)
(* Sampler.__init__: the configuration is fixed at construction *)
Init ==
    /\ sampler \in SamplerConfigs
    /\ construction = sampler
    /\ prep = NoCall
    /\ fwd = NoCall
    /\ pinned = NoCall

(* prepare_sampling_params is a module-level function: no Sampler is needed *)
InitPrepare ==
    /\ sampler = NoVal
    /\ construction = NoVal
    /\ prep = NoCall
    /\ fwd = NoCall
    /\ pinned = NoCall

(* one call of prepare_sampling_params *)
Prepare ==
    /\ prep = NoCall
    /\ \E batch_size \in 1..MaxBatchSize,
          top_k \in ParamInputs({1, 2}),
          top_p \in ParamInputs(TopPs),
          temperature \in ParamInputs(Temperatures) :
            prep' = [args |-> [batch_size |-> batch_size, top_k |-> top_k,
                               top_p |-> top_p, temperature |-> temperature],
                     ret |-> prepare_sampling_params(batch_size, top_k, top_p, temperature)]
    /\ UNCHANGED <<sampler, construction, fwd, pinned>>

(* the caller drops the prepared tensor *)
PrepareReturn ==
    /\ prep # NoCall
    /\ prep' = NoCall
    /\ UNCHANGED <<sampler, construction, fwd, pinned>>

(* one call of Sampler.forward; the in-place masked_fill_ of the code acts on the
   tensors torch.sort / topk return, so the caller's tensors are as before *)
ForwardOn(batches, logit_rows, param_rows) ==
    /\ fwd = NoCall
    /\ \E b \in batches :
       \E token_logits \in [1..b -> logit_rows], sampling_params \in [1..b -> param_rows],
          return_values \in BOOLEAN :
       \E ret \in forward(sampler, token_logits, sampling_params, return_values) :
            fwd' = [args |-> [token_logits |-> token_logits,
                              sampling_params |-> sampling_params,
                              return_values |-> return_values],
                    after |-> [token_logits |-> token_logits,
                               sampling_params |-> sampling_params],
                    ret |-> ret]
    /\ UNCHANGED <<sampler, construction, prep, pinned>>

Forward == ForwardOn(BatchSizes, LogitRows, ParamRows)

(* the logits and the result of a decoding step are discarded *)
Return ==
    /\ fwd # NoCall
    /\ fwd' = NoCall
    /\ UNCHANGED <<sampler, construction, prep, pinned>>

(* the caller keeps one call (arguments and result) to compare later calls with *)
Pin ==
    /\ pinned = NoCall
    /\ fwd # NoCall
    /\ pinned' = fwd
    /\ fwd' = NoCall
    /\ UNCHANGED <<sampler, construction, prep>>

RepeatBatches == {1}
RepeatParamRows == {<<1, One, 1>>, <<VocabSize, One, 1>>, <<VocabSize, Half, 3000>>}

ForwardRepeat == ForwardOn(RepeatBatches, LogitRows, RepeatParamRows)

NextRepeat == ForwardRepeat \/ Return \/ Pin

NextPrepare == Prepare \/ PrepareReturn

Next == Forward \/ Return

SpecPrepare == InitPrepare /\ [][NextPrepare]_vars

Spec == Init /\ [][Next]_vars

SpecRepeat == Init /\ [][NextRepeat]_vars

(* ---------------- claims about prepare_sampling_params ---------------- *)
PrepLen(arg) == IF arg.kind = "scalar" THEN 1 ELSE Len(arg.val)

PrepFirst(arg) == IF arg.kind = "scalar" THEN arg.val ELSE arg.val[1]

PrepLens == {PrepLen(prep.args.top_k), PrepLen(prep.args.top_p), PrepLen(prep.args.temperature)}

(* C7: for every batch size B and singleton (scalar or length-1) top_k, top_p and
   temperature, prepare_sampling_params returns a tensor with B rows of 3 columns,
   every row being [top_k, top_p, temperature] in that order. *)
C7_SingletonBroadcast ==
    (prep # NoCall /\ PrepLens = {1}) =>
        /\ prep.ret.kind = "tensor"
        /\ DOMAIN prep.ret.val = 1..prep.args.batch_size
        /\ \A i \in 1..prep.args.batch_size :
              prep.ret.val[i] = <<PrepFirst(prep.args.top_k), PrepFirst(prep.args.top_p),
                                  PrepFirst(prep.args.temperature)>>

C7_Witness ==
    /\ prep # NoCall
    /\ PrepLens = {1}
    /\ prep.args.batch_size > 1
    /\ prep.args.top_k.kind = "scalar"
    /\ prep.args.top_p.kind = "list"
    /\ prep.args.temperature.kind = "tensor"
    /\ prep.ret.kind = "tensor"
    /\ prep.args.top_p.val[1] # prep.args.temperature.val[1]

(* C8: prepare_sampling_params raises the shape-mismatch assertion, and returns no
   tensor, whenever the three coerced sequences do not all have the same length. *)
C8_MismatchRaises ==
    (prep # NoCall /\ Cardinality(PrepLens) > 1) => prep.ret = AssertionError

C8_Witness ==
    /\ prep # NoCall
    /\ PrepLen(prep.args.top_k) = PrepLen(prep.args.top_p)
    /\ PrepLen(prep.args.temperature) # PrepLen(prep.args.top_k)
    /\ prep.ret = AssertionError

(* C4: prepare_sampling_params fails with the shape-mismatch error whenever the
   common length of the three sequences is neither 1 nor batch_size, and never
   returns a tensor whose row count differs from batch_size. *)
C4_FailFastOnBatchMismatch ==
    prep # NoCall =>
        /\ (Cardinality(PrepLens) = 1 /\ PrepLens # {1} /\ PrepLens # {prep.args.batch_size})
              => prep.ret = AssertionError
        /\ prep.ret.kind = "tensor" => Len(prep.ret.val) = prep.args.batch_size

(* ---------------- claims about Sampler.forward ---------------- *)
Called == fwd # NoCall

Batch == Len(fwd.args.token_logits)

ArgTopK(i) == fwd.args.sampling_params[i][1]

ArgTopP(i) == fwd.args.sampling_params[i][2]

ArgTemperature(i) == fwd.args.sampling_params[i][3]

(* token t is the first maximal entry of the row *)
IsArgMax(row, t) ==
    /\ t + 1 \in 1..Len(row)
    /\ \A j \in 1..Len(row) : row[j] <= row[t + 1]
    /\ \A j \in 1..t : row[j] < row[t + 1]

ReturnsArgMax ==
    /\ fwd.ret.kind \in {"tokens", "tokens_values"}
    /\ DOMAIN fwd.ret.tokens = 1..Batch
    /\ \A i \in 1..Batch : IsArgMax(fwd.args.token_logits[i], fwd.ret.tokens[i])

(* C1: with do_sample = FALSE, forward returns for every row the arg-max of the
   row's logits, whatever top_k, top_p and temperature are, and draws no random
   number. *)
C1_GreedyArgmax ==
    (Called /\ ~sampler.do_sample) =>
        /\ ReturnsArgMax
        /\ ~fwd.ret.trace.rng
        /\ fwd.ret.trace.rand_selector = NoVal

C1_Witness ==
    /\ Called
    /\ ~sampler.do_sample
    /\ sampler.dynamic
    /\ Batch = 2
    /\ ArgTopK(1) > 1 /\ ArgTopP(1) < One /\ ArgTemperature(2) # 1
    /\ fwd.args.token_logits[1][1] < fwd.args.token_logits[1][2]
    /\ fwd.ret.tokens[1] = 1

(* C6: with do_sample = TRUE and dynamic = FALSE, when every row has top_k = 1,
   forward returns for each row the greedy arg-max of the row's logits, for every
   top_p and temperature. *)
C6_TopKOneIsGreedy ==
    (Called /\ sampler.do_sample /\ ~sampler.dynamic /\ \A i \in 1..Batch : ArgTopK(i) = 1)
        => ReturnsArgMax

C6_Witness ==
    /\ Called
    /\ sampler.do_sample /\ ~sampler.dynamic
    /\ \A i \in 1..Batch : ArgTopK(i) = 1
    /\ Batch = 2
    /\ ArgTopP(1) < One /\ ArgTemperature(2) # 1
    /\ fwd.args.token_logits[2][1] < fwd.args.token_logits[2][2]
    /\ fwd.ret.tokens[2] = 1

(* C3 (as claimed): whenever forward takes the greedy path with return_values = TRUE
   it returns the pair (token ids, probabilities) with every probability 1.0, on CPU
   and on the accelerator alike. *)
C3_GreedyReturnsOnes ==
    (Called /\ fwd.ret.trace.path = "greedy" /\ fwd.args.return_values) =>
        /\ fwd.ret.kind = "tokens_values"
        /\ DOMAIN fwd.ret.values = 1..Batch
        /\ \A i \in 1..Batch : fwd.ret.values[i] = One

KUsed == IF sampler.global_topk > 0 THEN sampler.global_topk ELSE VocabSize

(* row is a run of distinct token ids in descending order of their logits *)
IsSortedCandidates(logits, row) ==
    /\ DOMAIN row = 1..KUsed
    /\ \A p \in 1..KUsed : row[p] \in 0..(Len(logits) - 1)
    /\ \A p, q \in 1..KUsed : p < q =>
          /\ row[p] # row[q]
          /\ logits[row[p] + 1] >= logits[row[q] + 1]
    /\ \A t \in 0..(Len(logits) - 1) :
          (\A p \in 1..KUsed : row[p] # t) => logits[t + 1] <= logits[row[KUsed] + 1]

ReturnsCandidateIndices ==
    /\ fwd.ret.kind = "indices"
    /\ fwd.ret.tokens = NoVal
    /\ DOMAIN fwd.ret.indices = 1..Batch
    /\ \A i \in 1..Batch : IsSortedCandidates(fwd.args.token_logits[i], fwd.ret.indices[i])

(* C2 (as claimed): whenever is_medusa is set, for every do_sample, dynamic and
   parameter tensor, forward returns the sorted candidate index tensor of shape
   (B, k_used), never one token id per row. *)
C2_MedusaAlwaysIndices ==
    (Called /\ sampler.is_medusa) => ReturnsCandidateIndices

(* C2 (amended): whenever is_medusa is set and the greedy condition does not hold
   (do_sample is TRUE, and dynamic is TRUE or some row has top_k > 1), forward
   returns the sorted candidate index tensor of shape (B, k_used); when the greedy
   condition holds it returns one arg-max token id per row. *)
C2_MedusaIndicesOffGreedy ==
    (Called /\ sampler.is_medusa) =>
        IF sampler.do_sample /\ (sampler.dynamic \/ \E i \in 1..Batch : ArgTopK(i) > 1)
        THEN ReturnsCandidateIndices
        ELSE ReturnsArgMax

C2_Witness ==
    /\ Called
    /\ sampler.is_medusa /\ sampler.do_sample /\ ~sampler.dynamic
    /\ sampler.global_topk = 0
    /\ Batch = 2
    /\ ArgTopK(1) > 1 /\ ArgTopK(2) <= 1
    /\ fwd.args.token_logits[1][1] < fwd.args.token_logits[1][2]
    /\ fwd.ret.kind = "indices"
    /\ fwd.ret.indices[1][1] = 1

Trace_ == fwd.ret.trace

(* C5: on the general path, for every row with top_k >= 1 and every top_p, the top-p
   step never masks the first sorted position, so after top-p masking every such row
   keeps at least one candidate that neither top-k nor top-p masked. *)
C5_TopPKeepsFirst ==
    (Called /\ Trace_.top_p_applied) =>
        \A i \in 1..Batch : ArgTopK(i) >= 1 =>
            /\ ~Trace_.top_p_mask[i][1]
            /\ \E p \in 1..KUsed : ~Trace_.top_k_mask[i][p] /\ ~Trace_.top_p_mask[i][p]

(* a row whose top token alone already exceeds the (clamped) top_p threshold *)
C5_Witness ==
    /\ Called
    /\ Trace_.top_p_applied
    /\ \E i \in 1..Batch :
          /\ ArgTopK(i) >= 1
          /\ Trace_.raw_mask[i][1]
          /\ ~Trace_.top_p_mask[i][1]

(* C9: for a Sampler with deterministic = TRUE, two forward calls given identical
   logits and parameters return identical token ids, whatever calls happen in
   between; no call changes the construction-time configuration or the caller's
   logits and parameter tensors. *)
C9_DeterministicStateless ==
    /\ sampler = construction
    /\ Called =>
          /\ fwd.after.token_logits = fwd.args.token_logits
          /\ fwd.after.sampling_params = fwd.args.sampling_params
    /\ (Called /\ pinned # NoCall /\ sampler.deterministic /\ fwd.args = pinned.args) =>
          /\ fwd.ret.kind = pinned.ret.kind
          /\ fwd.ret.tokens = pinned.ret.tokens
          /\ fwd.ret.indices = pinned.ret.indices

C9_Witness ==
    /\ Called
    /\ pinned # NoCall
    /\ sampler.deterministic
    /\ fwd.args = pinned.args
    /\ Trace_.counts # NoVal
    /\ Trace_.rand_selector = <<Half>>
    /\ fwd.ret.tokens = pinned.ret.tokens

(* C10 (as claimed): on the general path with a draw, for every row with top_k >= 1
   and every draw of [0, 1), the number of cumulative probabilities strictly below
   the draw is a position 0..K-1, the returned token sits at the smallest sorted
   position whose cumulative probability is >= the draw, and that position is one of
   the row's first top_k candidates that top-p did not mask. *)
C10_DrawWithinCandidates ==
    (Called /\ Trace_.counts # NoVal) =>
        \A i \in 1..Batch : ArgTopK(i) >= 1 =>
            LET c == Trace_.counts[i]
            IN  /\ c \in 0..(KUsed - 1)
                /\ fwd.ret.kind = "tokens"
                /\ Trace_.probs_cumsum[i][c + 1] >= Trace_.rand_selector[i]
                /\ \A p \in 1..c : Trace_.probs_cumsum[i][p] < Trace_.rand_selector[i]
                /\ c < ArgTopK(i)
                /\ ~Trace_.top_k_mask[i][c + 1]
                /\ Trace_.top_p_applied => ~Trace_.top_p_mask[i][c + 1]

====
